---- MODULE Spec2Model ----
(***************************************************************************)
(* A model of hooks.d/hookutil.py: the process runner (run), the git       *)
(* attribute lookup (get_attr), the Memoized decorator, the log and show   *)
(* parsers (parse_git_log, parse_git_show) and the mail sender             *)
(* (send_mail).                                                            *)
(*                                                                         *)
(* A hook process is single threaded.  A behaviour of Spec follows one     *)
(* top-level call of one of the routines from its entry to its return or   *)
(* to the exception that leaves it (the Memoized component follows a       *)
(* sequence of calls of one decorated function, since its cache lives as   *)
(* long as the process).  Strings are sequences of one-character strings,  *)
(* so that split, strip, endswith and the regular expression are computed  *)
(* character by character.                                                 *)
(***************************************************************************)
EXTENDS Integers, Sequences, FiniteSets, TLC

VARIABLES
    \* ---- run
    run_pc,        \* "idle" | "waited" | "returned" | "raised"
    run_args,      \* [check_ret] of the call in progress
    proc,          \* what the child did: [ret, out, err]
    run_spawns,    \* number of subprocess.Popen calls made by the call
    run_result,    \* <<ret, out, err>> handed to the caller, or NoResult
    \* ---- get_attr
    attr_pc,       \* "idle" | "read_tree" | "check_attr" | "remove" | "parse"
                   \* | "returned" | "raised"
    attr_args,     \* [filename, attr]
    files,         \* the temporary files that exist
    idx_file,      \* the name mkstemp returned, or NoFile
    attr_out,      \* stdout of 'git check-attr'
    attr_result,   \* the returned value, the exception's name, or NoResult
    \* ---- Memoized
    memoized,      \* self.memoized: key -> stored result
    memo_n,        \* number of calls of the decorated function so far
    memo_called,   \* the <<args, kwargs>> the decorated function was called with
    memo_execs,    \* <<args, kwargs>> -> the results of the executions of
                   \* self.function with these arguments
    memo_last,     \* [args, kwargs, ret] of the latest call, or NoCall
    \* ---- parse_git_log (the function Memoized wraps)
    log_pc,        \* "idle" | "refs" | "log" | "returned" | "raised"
    log_args,      \* [branch, old_sha, new_sha, this_branch_only] as passed
    this_branch_only, \* the local variable, after line 132
    cmd,           \* the 'git log' command line being built
    log_ran,       \* the command lines handed to run(), in order
    refs_listed,   \* what 'git for-each-ref' printed, split into lines
    log_out,       \* stdout of 'git log'
    log_result,    \* the returned list, the exception's name, or NoResult
    \* ---- parse_git_show
    show_pc,       \* "idle" | "run" | "loop" | "returned" | "raised"
    show_args,     \* [sha, extensions]
    show_printed,  \* the changes 'git show' printed, one per line
    show_lines,    \* show.splitlines()
    show_i,        \* index in show_lines of the line the loop is at
    show_json,     \* the list being built
    show_result,   \* the returned list, the exception's name, or NoResult
    \* ---- send_mail
    mail_pc,       \* "idle" | "connect" | "loop" | "close" | "returned" | "raised"
    mail_to,       \* the dictionary: address -> text
    mail_todo,     \* the keys of mail_to the for loop has not reached
    smtp,          \* the connection: "none" | "open" | "closed"
    mail_events,   \* the calls made on smtplib, in order, with their outcome
    mail_result    \* the exception's name, <<"None">> on return, or NoResult

vars == <<run_pc, run_args, proc, run_spawns, run_result,
          attr_pc, attr_args, files, idx_file, attr_out, attr_result,
          memoized, memo_n, memo_called, memo_execs, memo_last,
          log_pc, log_args, this_branch_only, cmd, log_ran, refs_listed,
          log_out, log_result,
          show_pc, show_args, show_printed, show_lines, show_i, show_json,
          show_result,
          mail_pc, mail_to, mail_todo, smtp, mail_events, mail_result>>

run_vars == <<run_pc, run_args, proc, run_spawns, run_result>>
attr_vars == <<attr_pc, attr_args, files, idx_file, attr_out, attr_result>>
memo_vars == <<memoized, memo_n, memo_called, memo_execs, memo_last>>
log_vars == <<log_pc, log_args, this_branch_only, cmd, log_ran, refs_listed,
              log_out, log_result>>
show_vars == <<show_pc, show_args, show_printed, show_lines, show_i, show_json,
               show_result>>
mail_vars == <<mail_pc, mail_to, mail_todo, smtp, mail_events, mail_result>>

\* No call of another routine has started.
OthersIdle ==
    /\ run_pc = "idle" /\ attr_pc = "idle" /\ log_pc = "idle"
    /\ show_pc = "idle" /\ mail_pc = "idle"

\* No top-level call has started.
Idle == OthersIdle /\ memo_n = 0

NoResult == <<"none">>
NoFile == "nofile"

-----------------------------------------------------------------------------
(* Strings                                                                 *)

\* The characters str.strip() removes (of those the model's texts use).
Whitespace == {" ", "\t", "\n"}

Range(s) == {s[i] : i \in 1..Len(s)}

RECURSIVE LStrip(_, _)
LStrip(s, chars) ==
    IF s # <<>> /\ Head(s) \in chars THEN LStrip(Tail(s), chars) ELSE s

RECURSIVE RStrip(_, _)
RStrip(s, chars) ==
    IF s # <<>> /\ s[Len(s)] \in chars
    THEN RStrip(SubSeq(s, 1, Len(s) - 1), chars)
    ELSE s

\* str.strip(chars)
Strip(s, chars) == RStrip(LStrip(s, chars), chars)

\* str.split(sep) for a one-character separator: always at least one chunk.
RECURSIVE Split(_, _)
Split(s, sep) ==
    IF \A i \in 1..Len(s) : s[i] # sep
    THEN <<s>>
    ELSE LET i == CHOOSE k \in 1..Len(s) :
                      s[k] = sep /\ \A j \in 1..(k - 1) : s[j] # sep
         IN  <<SubSeq(s, 1, i - 1)>> \o Split(SubSeq(s, i + 1, Len(s)), sep)

\* str.splitlines(): like split on the line feed, without the empty chunk a
\* final line feed (or an empty text) would leave.
SplitLines(s) ==
    IF s = <<>> THEN <<>>
    ELSE IF s[Len(s)] = "\n" THEN Split(SubSeq(s, 1, Len(s) - 1), "\n")
    ELSE Split(s, "\n")

\* str.endswith(suffix)
EndsWith(s, suffix) ==
    /\ Len(suffix) <= Len(s)
    /\ SubSeq(s, Len(s) - Len(suffix) + 1, Len(s)) = suffix

-----------------------------------------------------------------------------
(* run(cmd, exec_dir, env, check_ret)                                      *)

\* Largest exit status a child of the model returns.
MaxRet == 2

\* What a child can write to one of its streams.
Texts == {<<>>, <<"x">>}

Children == [ret : 0..MaxRet, out : Texts, err : Texts]

\* Line 50: the condition under which run raises CalledProcessError.
RunRaisesAlways(check_ret, ret) == ret # 0
RunRaises(check_ret, ret) == check_ret /\ ret # 0

\* run() as its callers see it, for a child that did `child`.
RunOutcome(check_ret, child) ==
    IF RunRaises(check_ret, child.ret)
    THEN [raised |-> TRUE, value |-> NoResult]
    ELSE [raised |-> FALSE, value |-> <<child.ret, child.out, child.err>>]

\* Lines 37-42: Popen and wait.
RunSpawn ==
    /\ Idle
    /\ \E check_ret \in BOOLEAN, child \in Children :
          /\ run_args' = [check_ret |-> check_ret]
          /\ proc' = child
    /\ run_spawns' = run_spawns + 1
    /\ run_pc' = "waited"
    /\ UNCHANGED <<run_result>>
    /\ UNCHANGED <<attr_vars, memo_vars, log_vars, show_vars, mail_vars>>

\* Lines 44-55: read both streams back, raise or return.
RunFinish ==
    /\ run_pc = "waited"
    /\ LET o == RunOutcome(run_args.check_ret, proc)
       IN  /\ run_pc' = IF o.raised THEN "raised" ELSE "returned"
           /\ run_result' = o.value
    /\ UNCHANGED <<run_args, proc, run_spawns>>
    /\ UNCHANGED <<attr_vars, memo_vars, log_vars, show_vars, mail_vars>>

-----------------------------------------------------------------------------
(* get_attr(repo_dir, new_sha, filename, attr)                             *)

Filenames == {<<"f">>, <<"a", ":", "b">>}
Attrs == {<<"e">>}
AttrValues == {<<"u">>, <<"l", "f">>}

\* What 'git check-attr' prints: "<path>: <attr>: <value>\n", and the same
\* text cut short.
CheckAttrLine(f, a, v) == f \o <<":", " ">> \o a \o <<":", " ">> \o v \o <<"\n">>
CheckAttrOutputs ==
    {CheckAttrLine(f, a, v) : f \in Filenames, a \in Attrs, v \in AttrValues}
    \cup {f \o <<":", " ">> \o a \o <<"\n">> : f \in Filenames, a \in Attrs}
    \cup {f \o <<"\n">> : f \in Filenames}
    \cup {<<>>}

\* The name mkstemp gives the index file.
TmpName == "tmp_git_index"

\* Lines 65-68: mkstemp creates the file.
GetAttrCall ==
    /\ Idle
    /\ \E f \in Filenames, a \in Attrs :
          attr_args' = [filename |-> f, attr |-> a]
    /\ idx_file' = TmpName
    /\ files' = files \cup {TmpName}
    /\ attr_pc' = "read_tree"
    /\ UNCHANGED <<attr_out, attr_result>>
    /\ UNCHANGED <<run_vars, memo_vars, log_vars, show_vars, mail_vars>>

\* Lines 71-72: run(['git', 'read-tree', new_sha]); check_ret is its default.
GetAttrReadTree ==
    /\ attr_pc = "read_tree"
    /\ \E child \in Children :
          LET o == RunOutcome(TRUE, child)
          IN  IF o.raised
              THEN /\ attr_pc' = "raised"
                   /\ attr_result' = <<"CalledProcessError">>
              ELSE /\ attr_pc' = "check_attr"
                   /\ UNCHANGED attr_result
    /\ UNCHANGED <<attr_args, files, idx_file, attr_out>>
    /\ UNCHANGED <<run_vars, memo_vars, log_vars, show_vars, mail_vars>>

\* Lines 75-76: run(['git', 'check-attr', '--cached', attr, '--', filename]).
GetAttrCheckAttr ==
    /\ attr_pc = "check_attr"
    /\ \E ret \in 0..MaxRet, out \in CheckAttrOutputs :
          LET o == RunOutcome(TRUE, [ret |-> ret, out |-> out, err |-> <<>>])
          IN  IF o.raised
              THEN /\ attr_pc' = "raised"
                   /\ attr_result' = <<"CalledProcessError">>
                   /\ UNCHANGED attr_out
              ELSE /\ attr_pc' = "remove"
                   /\ attr_out' = o.value[2]
                   /\ UNCHANGED attr_result
    /\ UNCHANGED <<attr_args, files, idx_file>>
    /\ UNCHANGED <<run_vars, memo_vars, log_vars, show_vars, mail_vars>>

\* Line 78: os.remove(idx_file).
GetAttrRemove ==
    /\ attr_pc = "remove"
    /\ files' = files \ {idx_file}
    /\ attr_pc' = "parse"
    /\ UNCHANGED <<attr_args, idx_file, attr_out, attr_result>>
    /\ UNCHANGED <<run_vars, memo_vars, log_vars, show_vars, mail_vars>>

StripWs(c) == Strip(c, Whitespace)

\* Lines 81-86: split on ':', strip the chunks, check the echo, return chunk 2.
GetAttrParse ==
    /\ attr_pc = "parse"
    /\ LET parts == Split(attr_out, ":")
           chunks == [i \in 1..Len(parts) |-> StripWs(parts[i])]
       IN  IF chunks[1] # attr_args.filename
           THEN attr_pc' = "raised" /\ attr_result' = <<"AssertionError">>
           ELSE IF Len(chunks) < 2
           THEN attr_pc' = "raised" /\ attr_result' = <<"IndexError">>
           ELSE IF chunks[2] # attr_args.attr
           THEN attr_pc' = "raised" /\ attr_result' = <<"AssertionError">>
           ELSE IF Len(chunks) < 3
           THEN attr_pc' = "raised" /\ attr_result' = <<"IndexError">>
           ELSE attr_pc' = "returned" /\ attr_result' = <<"value", chunks[3]>>
    /\ UNCHANGED <<attr_args, files, idx_file, attr_out>>
    /\ UNCHANGED <<run_vars, memo_vars, log_vars, show_vars, mail_vars>>

-----------------------------------------------------------------------------
(* class Memoized                                                          *)

\* Calls of the decorated function a process makes, and the number of
\* positional arguments of a call.
MaxCalls == 3
MaxArgs == 1

ArgValues == {"a", "b"}
KwNames == {"k"}

\* *args: a tuple of values.
ArgTuples == UNION {[1..n -> ArgValues] : n \in 0..MaxArgs}

\* **kwargs: a dict from names to values, held as the sequence of its
\* <<name, value>> items in the dict's iteration order.
KwDicts == {<<>>} \cup {<<<<n, v>>>> : n \in KwNames, v \in ArgValues}

NoCall == [args |-> <<>>, kwargs |-> <<>>, ret |-> 0]

\* kwargs.values()
Values(kwargs) == [i \in 1..Len(kwargs) |-> kwargs[i][2]]

\* Line 99: key = args + tuple(kwargs.values())
KeyArgsOnly(args, kwargs) == args
Key(args, kwargs) == args \o Values(kwargs)

\* The results the wrapped function has returned so far; each execution
\* returns a new object, numbered in the order of the executions.
Executions == UNION {memo_execs[s] : s \in DOMAIN memo_execs}

\* Lines 98-106: __call__; the wrapped function returns normally.
MemoCall ==
    /\ OthersIdle
    /\ memo_n < MaxCalls
    /\ \E args \in ArgTuples, kwargs \in KwDicts :
          LET key == Key(args, kwargs)
              shape == <<args, kwargs>>
          IN  /\ memo_called' = memo_called \cup {shape}
              /\ IF key \in DOMAIN memoized
                 THEN /\ memo_last' = [args |-> args, kwargs |-> kwargs,
                                       ret |-> memoized[key]]
                      /\ UNCHANGED <<memoized, memo_execs>>
                 ELSE LET value == Cardinality(Executions) + 1
                          before == IF shape \in DOMAIN memo_execs
                                    THEN memo_execs[shape] ELSE {}
                      IN  /\ memo_execs' =
                                [s \in DOMAIN memo_execs \cup {shape} |->
                                    IF s = shape THEN before \cup {value}
                                    ELSE memo_execs[s]]
                          /\ memoized' =
                                [k \in DOMAIN memoized \cup {key} |->
                                    IF k = key THEN value ELSE memoized[k]]
                          /\ memo_last' = [args |-> args, kwargs |-> kwargs,
                                           ret |-> memoized'[key]]
    /\ memo_n' = memo_n + 1
    /\ UNCHANGED <<run_vars, attr_vars, log_vars, show_vars, mail_vars>>

-----------------------------------------------------------------------------
(* parse_git_log(repo, branch, old_sha, new_sha, this_branch_only=True)    *)

\* Commits a 'git log' of the model prints.
MaxCommits == 2

\* Length of a commit hash; '0' * 40 is the null revision.
HashLen == 40

Sha(c) == [i \in 1..HashLen |-> c]
ZeroSha == Sha("0")

\* The bytes 0x1f and 0x1e of the log format (%x1f, %x1e).
US == "<1f>"
RS == "<1e>"

\* Line 125.
git_commit_fields == <<"commit", "author_name", "author_email", "date", "message">>

\* Line 126: the format, as the sequence of its placeholders.
git_log_format ==
    <<"%H", "%x1f", "%an", "%x1f", "%ae", "%x1f", "%ad", "%x1f", "%s", "%x1e">>

\* The refs of the repository; a ref name is one character long here.
RefNames == {<<"m">>, <<"n">>, <<"p">>}

\* What 'git for-each-ref --format=%(refname)' prints: each ref of the
\* repository once, one per line.
RECURSIVE RefListings(_)
RefListings(names) ==
    {<<>>} \cup UNION {{r \o <<"\n">> \o rest : rest \in RefListings(names \ {r})}
                       : r \in names}

\* A commit as git holds it.  An author name and a subject are free text and
\* may hold the separator bytes themselves.
AuthorNames == {<<"A">>, <<"A", US, "B">>}
Subjects == {<<>>, <<"s">>, <<"s", RS, "t">>}
Commits == [an : AuthorNames, s : Subjects]

\* What 'git log --format=<git_log_format>' prints for one commit: the
\* expanded format and a line feed.
LogEntry(c) ==
    <<"h", US>> \o c.an \o <<US, "e", US, "d", US>> \o c.s \o <<RS, "\n">>

RECURSIVE LogText(_)
LogText(commits) ==
    IF commits = <<>> THEN <<>>
    ELSE LogEntry(Head(commits)) \o LogText(Tail(commits))

LogOutputs ==
    {LogText(cs) : cs \in UNION {[1..n -> Commits] : n \in 0..MaxCommits}}

Min(a, b) == IF a < b THEN a ELSE b

\* dict(zip(keys, values)): zip stops at the shorter of the two.
DictZip(keys, values) ==
    [k \in {keys[i] : i \in 1..Min(Len(keys), Len(values))} |->
        values[CHOOSE i \in 1..Len(keys) : keys[i] = k]]

\* list.remove(x) under 'if x in list': the first occurrence goes.
RECURSIVE RemoveFirst(_, _)
RemoveFirst(list, x) ==
    IF list = <<>> THEN <<>>
    ELSE IF Head(list) = x THEN Tail(list)
    ELSE <<Head(list)>> \o RemoveFirst(Tail(list), x)

\* Lines 129-135: the revisions argument of 'git log'.
Revisions(old_sha, new_sha) ==
    IF old_sha = ZeroSha THEN new_sha ELSE old_sha \o <<"..">> \o new_sha

\* Lines 129-132: this_branch_only after the test for a new branch.
ThisBranchOnlyAsPassed(old_sha, passed) == passed
ThisBranchOnly(old_sha, passed) ==
    IF old_sha = ZeroSha THEN FALSE ELSE passed

\* Lines 144-147: the refs to exclude.
ExcludedKeepBranch(refs_text, branch) == SplitLines(refs_text)
Excluded(refs_text, branch) ==
    LET refs == SplitLines(refs_text)
    IN  IF branch \in Range(refs) THEN RemoveFirst(refs, branch) ELSE refs

\* Lines 158-159: the records of the log, each split into its fields.
SplitField(row) == Split(Strip(row, Whitespace), US)
Rows(log) ==
    LET records == Split(Strip(log, {"\n", RS}), RS)
    IN  [i \in 1..Len(records) |-> SplitField(records[i])]

\* Line 160.
ZipFields(rows) == [i \in 1..Len(rows) |-> DictZip(git_commit_fields, rows[i])]

ForEachRefCmd == <<<<"git">>, <<"for-each-ref">>, <<"--format=%(refname)">>>>

\* Lines 125-135 and the test of line 141.
ParseGitLogCall ==
    /\ Idle
    /\ \E branch \in RefNames, old_sha \in {ZeroSha, Sha("1")},
          new_sha \in {Sha("2")}, passed \in BOOLEAN :
          /\ log_args' = [branch |-> branch, old_sha |-> old_sha,
                          new_sha |-> new_sha, this_branch_only |-> passed]
          /\ cmd' = <<<<"git">>, <<"log">>, <<"--format=">> \o git_log_format,
                      Revisions(old_sha, new_sha)>>
          /\ this_branch_only' = ThisBranchOnly(old_sha, passed)
          /\ log_pc' = IF this_branch_only' THEN "log" ELSE "refs"
    /\ UNCHANGED <<log_ran, refs_listed, log_out, log_result>>
    /\ UNCHANGED <<run_vars, attr_vars, memo_vars, show_vars, mail_vars>>

\* Lines 143-150: list the refs, drop the branch being pushed, exclude the rest.
ParseGitLogRefs ==
    /\ log_pc = "refs"
    /\ log_ran' = Append(log_ran, ForEachRefCmd)
    /\ \E ret \in 0..MaxRet, out \in RefListings(RefNames) :
          LET o == RunOutcome(TRUE, [ret |-> ret, out |-> out, err |-> <<>>])
          IN  IF o.raised
              THEN /\ log_pc' = "raised"
                   /\ log_result' = <<"CalledProcessError">>
                   /\ UNCHANGED <<cmd, refs_listed>>
              ELSE LET refs == Excluded(o.value[2], log_args.branch)
                   IN  /\ refs_listed' = SplitLines(o.value[2])
                       /\ cmd' = IF refs # <<>>
                                 THEN cmd \o <<<<"--ignore-missing">>, <<"--not">>>>
                                          \o refs
                                 ELSE cmd
                       /\ log_pc' = "log"
                       /\ UNCHANGED log_result
    /\ UNCHANGED <<log_args, this_branch_only, log_out>>
    /\ UNCHANGED <<run_vars, attr_vars, memo_vars, show_vars, mail_vars>>

\* Lines 152-165: run the log, return {} for no output, else parse it.
ParseGitLogRun ==
    /\ log_pc = "log"
    /\ log_ran' = Append(log_ran, cmd)
    /\ \E ret \in 0..MaxRet, out \in LogOutputs :
          LET o == RunOutcome(TRUE, [ret |-> ret, out |-> out, err |-> <<>>])
          IN  IF o.raised
              THEN /\ log_pc' = "raised"
                   /\ log_result' = <<"CalledProcessError">>
                   /\ UNCHANGED log_out
              ELSE /\ log_out' = o.value[2]
                   /\ log_pc' = "returned"
                   /\ log_result' = IF o.value[2] = <<>> THEN <<>>
                                     ELSE ZipFields(Rows(o.value[2]))
    /\ UNCHANGED <<log_args, this_branch_only, cmd, refs_listed>>
    /\ UNCHANGED <<run_vars, attr_vars, memo_vars, show_vars, mail_vars>>

-----------------------------------------------------------------------------
(* parse_git_show(repo, sha, extensions=None)                              *)

\* Lines a 'git show' of the model prints.
MaxLines == 2

\* Digits of a file mode in a raw line (\d{6}).
ModeLen == 6

Digits == {"0", "1", "2", "3", "4", "5", "6", "7", "8", "9"}
Lower == {"a", "b", "c", "d", "e", "f", "g", "h", "i", "j", "k", "l", "m",
          "n", "o", "p", "q", "r", "s", "t", "u", "v", "w", "x", "y", "z"}

\* One change as 'git show --raw' prints it:
\*   <lead><m1> <m2> <h1> <h2> <st><sep><path>
\* sep is white space and path does not start with white space.
Change(lead, m1, m2, h1, h2, st, sep, path) ==
    [lead |-> lead, m1 |-> m1, m2 |-> m2, h1 |-> h1, h2 |-> h2,
     st |-> st, sep |-> sep, path |-> path]

GoodMode == <<"1", "0", "0", "6", "4", "4">>
PyPath == <<"f", ".", "p", "y">>
TxtPath == <<"a", " ", "b", ".", "t">>

Modified(st, sep, path) ==
    Change(<<":">>, GoodMode, GoodMode, Sha("a"), Sha("7"), st, sep, path)

\* The lines of the model: modified, added and deleted files, a rename with
\* its similarity score and its two paths, and lines that are cut or garbled.
Changes ==
    {Modified(<<st>>, <<"\t">>, path) : st \in {"M", "A", "D"}, path \in {PyPath, TxtPath}}
    \cup {Modified(<<"M">>, <<" ", " ">>, PyPath),
          Modified(<<"R", "1", "0", "0">>, <<"\t">>, <<"o", "\t">> \o PyPath),
          Modified(<<"T">>, <<"\t">>, PyPath),
          Modified(<<"M">>, <<>>, PyPath),
          Modified(<<"M">>, <<"\t">>, <<>>),
          Modified(<<"M">>, <<" ", "\t">>, <<>>),
          Change(<<>>, GoodMode, GoodMode, Sha("a"), Sha("7"), <<"M">>, <<"\t">>, PyPath),
          Change(<<":">>, <<"1", "0", "0", "6", "4">>, GoodMode, Sha("a"), Sha("7"),
                 <<"M">>, <<"\t">>, PyPath),
          Change(<<":">>, GoodMode, GoodMode, SubSeq(Sha("a"), 1, HashLen - 1),
                 Sha("7"), <<"M">>, <<"\t">>, PyPath),
          Change(<<":">>, GoodMode, GoodMode, Sha("a"), Sha("F"),
                 <<"M">>, <<"\t">>, PyPath)}

RawLine(c) ==
    c.lead \o c.m1 \o <<" ">> \o c.m2 \o <<" ">> \o c.h1 \o <<" ">> \o c.h2
           \o <<" ">> \o c.st \o c.sep \o c.path

RECURSIVE ShowText(_)
ShowText(changes) ==
    IF changes = <<>> THEN <<>>
    ELSE RawLine(Head(changes)) \o <<"\n">> \o ShowText(Tail(changes))

\* The extensions argument: None, or a collection of suffixes.
NoExtensions == [given |-> FALSE, of |-> {}]
Extensions(suffixes) == [given |-> TRUE, of |-> suffixes]
ExtensionArgs ==
    {NoExtensions, Extensions({}), Extensions({<<".", "p", "y">>}),
     Extensions({<<".", "t">>, <<".", "p", "y">>})}

\* Lines 179-187.
extension_match_any(filepath, extensions) == TRUE
extension_match(filepath, extensions) ==
    IF ~extensions.given THEN TRUE
    ELSE \E ext \in extensions.of : EndsWith(filepath, ext)

AllIn(s, from, n, chars) == \A i \in from..(from + n - 1) : s[i] \in chars

\* Length of the white space a text starts with.
RECURSIVE LeadingSpace(_)
LeadingSpace(s) ==
    IF s # <<>> /\ Head(s) \in Whitespace THEN 1 + LeadingSpace(Tail(s)) ELSE 0

\* The status letters of line 198 ([MAD]).
StatusLetters == {"M", "A", "D"}

NoMatch == <<>>

\* Line 198: re.match of
\*   ^:\d{6}\s\d{6}\s([a-z0-9]{40})\s([a-z0-9]{40})\s([MAD])\s+(.+)$
\* on a line without a line feed: the four groups, or NoMatch.  \s+ is
\* greedy and gives one character back when it would leave (.+) nothing.
Match(line) ==
    LET m1 == 2
        m2 == m1 + ModeLen + 1
        h1 == m2 + ModeLen + 1
        h2 == h1 + HashLen + 1
        st == h2 + HashLen + 1
        rest == SubSeq(line, st + 1, Len(line))
        w == LeadingSpace(rest)
    IN  IF /\ Len(line) >= st + 2
           /\ line[1] = ":"
           /\ AllIn(line, m1, ModeLen, Digits)
           /\ line[m2 - 1] \in Whitespace
           /\ AllIn(line, m2, ModeLen, Digits)
           /\ line[h1 - 1] \in Whitespace
           /\ AllIn(line, h1, HashLen, Lower \cup Digits)
           /\ line[h2 - 1] \in Whitespace
           /\ AllIn(line, h2, HashLen, Lower \cup Digits)
           /\ line[st - 1] \in Whitespace
           /\ line[st] \in StatusLetters
           /\ line[st + 1] \in Whitespace
        THEN <<SubSeq(line, h1, h1 + HashLen - 1),
               SubSeq(line, h2, h2 + HashLen - 1),
               <<line[st]>>,
               IF w < Len(rest) THEN SubSeq(rest, w + 1, Len(rest))
               ELSE SubSeq(rest, w, w)>>
        ELSE NoMatch

\* Line 193.
git_show_fields == <<"old_blob", "new_blob", "status", "path">>

\* Line 189: assert sha != '0' * 40.
ParseGitShowCall ==
    /\ Idle
    /\ \E sha \in {ZeroSha, Sha("2")}, extensions \in ExtensionArgs :
          /\ show_args' = [sha |-> sha, extensions |-> extensions]
          /\ IF sha = ZeroSha
             THEN show_pc' = "raised" /\ show_result' = <<"AssertionError">>
             ELSE show_pc' = "run" /\ UNCHANGED show_result
    /\ UNCHANGED <<show_printed, show_lines, show_i, show_json>>
    /\ UNCHANGED <<run_vars, attr_vars, memo_vars, log_vars, mail_vars>>

\* Lines 190-195: run 'git show', split its output into lines.
ParseGitShowRun ==
    /\ show_pc = "run"
    /\ \E ret \in 0..MaxRet,
          printed \in UNION {[1..n -> Changes] : n \in 0..MaxLines} :
          LET o == RunOutcome(TRUE, [ret |-> ret, out |-> ShowText(printed),
                                     err |-> <<>>])
          IN  IF o.raised
              THEN /\ show_pc' = "raised"
                   /\ show_result' = <<"CalledProcessError">>
                   /\ UNCHANGED <<show_printed, show_lines, show_i, show_json>>
              ELSE /\ show_printed' = printed
                   /\ show_lines' = SplitLines(o.value[2])
                   /\ show_i' = 1
                   /\ show_json' = <<>>
                   /\ show_pc' = "loop"
                   /\ UNCHANGED show_result
    /\ UNCHANGED show_args
    /\ UNCHANGED <<run_vars, attr_vars, memo_vars, log_vars, mail_vars>>

\* Lines 195-208: one turn of the loop.
ParseGitShowLine ==
    /\ show_pc = "loop"
    /\ show_i <= Len(show_lines)
    /\ LET match == Match(show_lines[show_i])
       IN  IF match = NoMatch
           THEN UNCHANGED show_json
           ELSE IF extension_match(match[4], show_args.extensions)
           THEN show_json' = Append(show_json, DictZip(git_show_fields, match))
           ELSE UNCHANGED show_json
    /\ show_i' = show_i + 1
    /\ UNCHANGED <<show_pc, show_args, show_printed, show_lines, show_result>>
    /\ UNCHANGED <<run_vars, attr_vars, memo_vars, log_vars, mail_vars>>

\* Line 210.
ParseGitShowReturn ==
    /\ show_pc = "loop"
    /\ show_i > Len(show_lines)
    /\ show_pc' = "returned"
    /\ show_result' = show_json
    /\ UNCHANGED <<show_args, show_printed, show_lines, show_i, show_json>>
    /\ UNCHANGED <<run_vars, attr_vars, memo_vars, log_vars, mail_vars>>

-----------------------------------------------------------------------------
(* send_mail(mail_to, smtp_from, subject, smtp_server, smtp_port)          *)

\* Entries of a mail_to dictionary of the model.
MaxRecipients == 3

Addresses == {"a@x", "b@x", "c@x", "d@x"}
Bodies == {<<"h", "i">>}

MailDicts ==
    UNION {[to -> Bodies] : to \in {t \in SUBSET Addresses :
                                      Cardinality(t) <= MaxRecipients}}

\* How smtp.sendmail can end: the message is accepted; the relay refuses it
\* (smtplib resets the session and raises, the connection stays open); the
\* relay drops the connection (smtplib closes its socket and raises).
SendOutcomes == {"sent", "refused", "disconnected"}

\* Line 222: if not mail_to.
NothingToSendNever(recipients) == FALSE
NothingToSend(recipients) == DOMAIN recipients = {}

\* Lines 234-255: the message for one recipient.
Message(send_to, text) ==
    [To |-> send_to,
     html |-> <<"<HTML><BODY><div><pre>">> \o text \o <<"</pre></div></BODY></HTML>">>]

\* Line 257: where control goes when smtp.sendmail raises; nothing catches
\* the exception, so it leaves send_mail.
AfterFailedSendGoOn == "loop"
AfterFailedSend == "raised"

\* Lines 222-224.
SendMailCall ==
    /\ Idle
    /\ \E recipients \in MailDicts :
          /\ mail_to' = recipients
          /\ mail_todo' = DOMAIN recipients
          /\ IF NothingToSend(recipients)
             THEN mail_pc' = "returned" /\ mail_result' = <<"None">>
             ELSE mail_pc' = "connect" /\ UNCHANGED mail_result
    /\ UNCHANGED <<smtp, mail_events>>
    /\ UNCHANGED <<run_vars, attr_vars, memo_vars, log_vars, show_vars>>

\* Lines 227-229: smtplib.SMTP(smtp_server, smtp_port) connects or raises.
SendMailConnect ==
    /\ mail_pc = "connect"
    /\ \E ok \in BOOLEAN :
          IF ok
          THEN /\ smtp' = "open"
               /\ mail_events' = Append(mail_events, [op |-> "connect", ok |-> TRUE])
               /\ mail_pc' = "loop"
               /\ UNCHANGED mail_result
          ELSE /\ mail_events' = Append(mail_events, [op |-> "connect", ok |-> FALSE])
               /\ mail_pc' = "raised"
               /\ mail_result' = <<"socket.error">>
               /\ UNCHANGED smtp
    /\ UNCHANGED <<mail_to, mail_todo>>
    /\ UNCHANGED <<run_vars, attr_vars, memo_vars, log_vars, show_vars>>

\* Lines 231-258: one turn of the loop, for the next key of the dictionary.
SendMailSend ==
    /\ mail_pc = "loop"
    /\ \E send_to \in mail_todo, outcome \in SendOutcomes :
          /\ mail_todo' = mail_todo \ {send_to}
          /\ mail_events' = Append(mail_events,
                [op |-> "sendmail", ok |-> outcome = "sent", to |-> send_to,
                 msg |-> Message(send_to, mail_to[send_to])])
          /\ smtp' = IF outcome = "disconnected" THEN "closed" ELSE smtp
          /\ IF outcome = "sent"
             THEN mail_pc' = "loop" /\ UNCHANGED mail_result
             ELSE mail_pc' = AfterFailedSend /\ mail_result' = <<"SMTPException">>
    /\ UNCHANGED mail_to
    /\ UNCHANGED <<run_vars, attr_vars, memo_vars, log_vars, show_vars>>

\* Line 260: smtp.close(), after the loop.
SendMailClose ==
    /\ mail_pc = "loop"
    /\ mail_todo = {}
    /\ smtp' = "closed"
    /\ mail_events' = Append(mail_events, [op |-> "close", ok |-> TRUE])
    /\ mail_pc' = "returned"
    /\ mail_result' = <<"None">>
    /\ UNCHANGED <<mail_to, mail_todo>>
    /\ UNCHANGED <<run_vars, attr_vars, memo_vars, log_vars, show_vars>>

-----------------------------------------------------------------------------

Init ==
    /\ run_pc = "idle"
    /\ run_args = [check_ret |-> TRUE]
    /\ proc = [ret |-> 0, out |-> <<>>, err |-> <<>>]
    /\ run_spawns = 0
    /\ run_result = NoResult
    /\ attr_pc = "idle"
    /\ attr_args = [filename |-> <<>>, attr |-> <<>>]
    /\ files = {}
    /\ idx_file = NoFile
    /\ attr_out = <<>>
    /\ attr_result = NoResult
    /\ memoized = <<>>
    /\ memo_n = 0
    /\ memo_called = {}
    /\ memo_execs = <<>>
    /\ memo_last = NoCall
    /\ log_pc = "idle"
    /\ log_args = [branch |-> <<>>, old_sha |-> <<>>, new_sha |-> <<>>,
                   this_branch_only |-> TRUE]
    /\ this_branch_only = TRUE
    /\ cmd = <<>>
    /\ log_ran = <<>>
    /\ refs_listed = <<>>
    /\ log_out = <<>>
    /\ log_result = NoResult
    /\ show_pc = "idle"
    /\ show_args = [sha |-> <<>>, extensions |-> NoExtensions]
    /\ show_printed = <<>>
    /\ show_lines = <<>>
    /\ show_i = 0
    /\ show_json = <<>>
    /\ show_result = NoResult
    /\ mail_pc = "idle"
    /\ mail_to = <<>>
    /\ mail_todo = {}
    /\ smtp = "none"
    /\ mail_events = <<>>
    /\ mail_result = NoResult

Next ==
    \/ RunSpawn
    \/ RunFinish
    \/ GetAttrCall
    \/ GetAttrReadTree
    \/ GetAttrCheckAttr
    \/ GetAttrRemove
    \/ GetAttrParse
    \/ MemoCall
    \/ ParseGitLogCall
    \/ ParseGitLogRefs
    \/ ParseGitLogRun
    \/ ParseGitShowCall
    \/ ParseGitShowRun
    \/ ParseGitShowLine
    \/ ParseGitShowReturn
    \/ SendMailCall
    \/ SendMailConnect
    \/ SendMailSend
    \/ SendMailClose

Spec == Init /\ [][Next]_vars

-----------------------------------------------------------------------------
(* Properties                                                              *)

\* C9: run spawns the command once; it raises exactly when check_ret is set
\* and the exit status is not 0, handing back no result; otherwise it returns
\* the child's exit status and the two streams as the child wrote them.
C9_RunClassifiesByExitStatus ==
    /\ run_pc # "idle" => run_spawns = 1
    /\ run_pc \in {"returned", "raised"} =>
          /\ (run_pc = "raised") <=> (run_args.check_ret /\ proc.ret # 0)
          /\ (run_pc = "returned") <=> (proc.ret = 0 \/ ~run_args.check_ret)
          /\ run_pc = "returned" => run_result = <<proc.ret, proc.out, proc.err>>
          /\ run_pc = "raised" => run_result = NoResult

\* A call with check_ret false has returned a non-zero exit status.
C9_Witness ==
    /\ run_pc = "returned" /\ ~run_args.check_ret
    /\ proc.ret # 0 /\ run_result[1] = proc.ret /\ proc.err # <<>>

\* C1: once get_attr has returned or raised, the temporary index file it
\* created no longer exists.
C1_IndexFileRemovedOnEveryExit ==
    attr_pc \in {"returned", "raised"} => idx_file \notin files

\* C2: once send_mail has opened its connection, it does not return or raise
\* with the connection still open.
C2_ConnectionClosedOnEveryExit ==
    (/\ mail_pc \in {"returned", "raised"}
     /\ \E i \in 1..Len(mail_events) :
           mail_events[i].op = "connect" /\ mail_events[i].ok)
    => smtp # "open"

EveryRecipientSent ==
    \A i \in 1..Len(mail_events) :
        mail_events[i].op = "sendmail" => mail_events[i].ok

SendsTo(r) ==
    {i \in 1..Len(mail_events) :
        mail_events[i].op = "sendmail" /\ mail_events[i].to = r}

\* C3: a send_mail that returns after sends that all succeeded has, for an
\* empty dictionary, connected to nothing and sent nothing; otherwise it has
\* connected once, then sent one message to each recipient, then closed the
\* connection.  At no time is there a second connection or a call after the
\* close.
C3_OneConnectionOneSendPerRecipient ==
    /\ \A i \in 1..Len(mail_events) :
          /\ mail_events[i].op = "connect" => i = 1
          /\ mail_events[i].op = "close" => i = Len(mail_events)
    /\ (mail_pc = "returned" /\ EveryRecipientSent) =>
          IF DOMAIN mail_to = {}
          THEN mail_events = <<>> /\ smtp = "none"
          ELSE LET n == Cardinality(DOMAIN mail_to)
               IN  /\ Len(mail_events) = n + 2
                   /\ mail_events[1] = [op |-> "connect", ok |-> TRUE]
                   /\ mail_events[n + 2].op = "close"
                   /\ \A i \in 2..(n + 1) : mail_events[i].op = "sendmail"
                   /\ \A r \in DOMAIN mail_to :
                         /\ Cardinality(SendsTo(r)) = 1
                         /\ \A i \in SendsTo(r) :
                               mail_events[i].msg = Message(r, mail_to[r])
                   /\ smtp = "closed"

\* send_mail has returned after sending to two recipients.
C3_Witness ==
    /\ mail_pc = "returned"
    /\ Cardinality(DOMAIN mail_to) = 2
    /\ Len(mail_events) = 4
    /\ smtp = "closed"

\* C4: a send that fails is the last call send_mail makes on the relay: the
\* exception leaves send_mail, the recipient is not tried again and the
\* recipients the loop has not reached get no send.
C4_FailedSendAbortsTheBatch ==
    \A i \in 1..Len(mail_events) :
        (mail_events[i].op = "sendmail" /\ ~mail_events[i].ok) =>
            /\ i = Len(mail_events)
            /\ mail_pc = "raised"
            /\ mail_result = <<"SMTPException">>
            /\ Cardinality(SendsTo(mail_events[i].to)) = 1
            /\ \A r \in mail_todo : SendsTo(r) = {}

\* The second send of a batch of three has failed.
C4_Witness ==
    /\ mail_pc = "raised"
    /\ Len(mail_events) = 3
    /\ mail_events[2].op = "sendmail" /\ mail_events[2].ok
    /\ mail_events[3].op = "sendmail" /\ ~mail_events[3].ok
    /\ mail_todo # {}

\* The key of a call as the claim states it: the positional arguments
\* followed by the values of the keyword arguments.
FlatKey(shape) == shape[1] \o [i \in 1..Len(shape[2]) |-> shape[2][i][2]]

ExecutionsFor(key) ==
    UNION {memo_execs[t] : t \in {u \in DOMAIN memo_execs : FlatKey(u) = key}}

\* C5: the wrapped function has been executed exactly once for each key the
\* decorated function was called with, and the latest call returned the
\* result of that one execution.
C5_ExecutedOncePerKey ==
    /\ \A s \in memo_called : Cardinality(ExecutionsFor(FlatKey(s))) = 1
    /\ Cardinality(Executions) = Cardinality({FlatKey(s) : s \in memo_called})
    /\ memo_n > 0 =>
          ExecutionsFor(FlatKey(<<memo_last.args, memo_last.kwargs>>))
              = {memo_last.ret}

\* Three calls: the latest repeats the key of the first and gets its
\* result, the second had another key and was executed.
C5_Witness ==
    /\ memo_n = 3
    /\ Cardinality(Executions) = 2
    /\ memo_last.ret = 1
    /\ Cardinality(memo_called) >= 2

\* C6: parse_git_log does not return when a record of the log has a number
\* of fields other than the five expected.
C6_FailsOnWrongFieldCount ==
    (log_pc = "returned" /\ log_out # <<>>) =>
        \A i \in 1..Len(Rows(log_out)) :
            Len(Rows(log_out)[i]) = Len(git_commit_fields)

LogBase(revisions) ==
    <<<<"git">>, <<"log">>, <<"--format=">> \o git_log_format, revisions>>

\* The refs listed other than the branch, in the order listed.
OtherRefs == SelectSeq(refs_listed, LAMBDA r : r # log_args.branch)

ExclusionArgs ==
    IF OtherRefs = <<>> THEN <<>>
    ELSE <<<<"--ignore-missing">>, <<"--not">>>> \o OtherRefs

\* C7: for the null old_sha, whatever this_branch_only was passed, the log is
\* asked for new_sha alone and not for a range, the refs are listed first,
\* and the exclusion of the other refs is applied.
C7_NewBranchForcesAllRefs ==
    (log_pc # "idle" /\ log_args.old_sha = ZeroSha) =>
        /\ ~this_branch_only
        /\ cmd[4] = log_args.new_sha
        /\ log_pc # "refs" => Len(log_ran) >= 1 /\ log_ran[1] = ForEachRefCmd
        /\ log_pc \in {"log", "returned"} =>
              cmd = LogBase(log_args.new_sha) \o ExclusionArgs
        /\ log_pc = "returned" => log_ran = <<ForEachRefCmd, cmd>>

\* A new branch pushed with this_branch_only passed as True, and other refs
\* excluded.
C7_Witness ==
    /\ log_pc = "returned"
    /\ log_args.old_sha = ZeroSha
    /\ log_args.this_branch_only
    /\ Len(cmd) = 8
    /\ log_result # <<>>

\* The refs after --not in the command line.
ExclusionList == IF Len(cmd) > 4 THEN SubSeq(cmd, 7, Len(cmd)) ELSE <<>>

\* C8: when this_branch_only is false, passed or forced, the refs the log
\* command excludes are the listed refs without the branch, each once; when
\* it is true and old_sha is not null, the refs are not listed and the
\* command is the log of the range old_sha..new_sha and nothing more.
C8_ExclusionIsAllRefsButTheBranch ==
    /\ (/\ log_pc \in {"log", "returned"}
        /\ (~log_args.this_branch_only \/ log_args.old_sha = ZeroSha)) =>
          /\ Range(ExclusionList) = Range(refs_listed) \ {log_args.branch}
          /\ Cardinality(Range(ExclusionList)) = Len(ExclusionList)
          /\ Len(cmd) > 4 =>
                cmd[5] = <<"--ignore-missing">> /\ cmd[6] = <<"--not">>
          /\ Len(cmd) # 6
          /\ log_pc = "returned" => log_ran[Len(log_ran)] = cmd
    /\ (/\ log_pc # "idle"
        /\ log_args.this_branch_only /\ log_args.old_sha # ZeroSha) =>
          /\ cmd = LogBase(log_args.old_sha \o <<"..">> \o log_args.new_sha)
          /\ \A i \in 1..Len(log_ran) : log_ran[i] = cmd

\* An update of branch m with this_branch_only false in a repository whose
\* refs are m and two others: the two others are excluded.
C8_Witness ==
    /\ log_pc = "returned"
    /\ log_args.old_sha # ZeroSha /\ ~log_args.this_branch_only
    /\ log_args.branch \in Range(refs_listed)
    /\ Len(refs_listed) = 3
    /\ Len(ExclusionList) = 2

\* The raw-line pattern, stated on the parts of a printed change.
IsMode(m) == Len(m) = ModeLen /\ Range(m) \subseteq Digits
IsObjectId(h) == Len(h) = HashLen /\ Range(h) \subseteq (Lower \cup Digits)
MatchesPattern(c) ==
    /\ c.lead = <<":">>
    /\ IsMode(c.m1) /\ IsMode(c.m2)
    /\ IsObjectId(c.h1) /\ IsObjectId(c.h2)
    /\ c.st \in {<<"M">>, <<"A">>, <<"D">>}
    /\ c.sep # <<>>
    /\ Len(c.sep) + Len(c.path) >= 2

\* The path of a matching line: what follows the white space after the
\* status (its last character, if nothing follows).
PathOf(c) == IF c.path # <<>> THEN c.path ELSE <<c.sep[Len(c.sep)]>>

HasSuffix(path, suffix) == \E prefix \in {SubSeq(path, 1, k) : k \in 0..Len(path)} :
                              path = prefix \o suffix

Retained(c) ==
    /\ MatchesPattern(c)
    /\ show_args.extensions.given =>
          \E suffix \in show_args.extensions.of : HasSuffix(PathOf(c), suffix)

RecordOf(c) ==
    [old_blob |-> c.h1, new_blob |-> c.h2, status |-> c.st, path |-> PathOf(c)]

\* The records of the first n printed changes.
RecordsOf(n) ==
    LET kept == SelectSeq(SubSeq(show_printed, 1, n), Retained)
    IN  [i \in 1..Len(kept) |-> RecordOf(kept[i])]

====
